---- MODULE Spec2Model ----
(***************************************************************************)
(* Model of src/src/fundraising.py: the FundraisingPlatform ledger         *)
(* (SQLite tables campaigns and pledges) and the engine calls              *)
(* create_campaign, pledge, check_deadlines and refund_campaign.           *)
(*                                                                         *)
(* Money is counted in whole dollars, the clock in whole ticks.            *)
(* _generate_id hashes a time.time() reading far finer than a tick, so a   *)
(* call may draw any identifier; the 8-hex-digit truncated md5 is scaled   *)
(* down to the values of Ids.                                              *)
(***************************************************************************)
EXTENDS Integers, FiniteSets, Sequences, TLC

\* ---------------------------------------------------------------- bounds
\* The clock runs from 0 to MaxTime.
MaxTime == 1

\* ------------------------------------------------------- program constants
\* class CampaignStatus
CampaignStatus == {"active", "success", "failed", "cancelled"}

\* FundraisingPlatform.VALID_CATEGORIES
VALID_CATEGORIES == {"tech", "art", "music", "games", "film", "community", "science"}

\* FundraisingPlatform.REWARD_TIERS, built from class RewardTier
REWARD_TIERS == [supporter |-> 5, backer |-> 25, champion |-> 100, founder |-> 500]

\* ------------------------------------------------------------ input sets
Categories == {"tech", "food"}
Goals == {0, 100}
DeadlineDays == {0, 1}
Backers == {"alice"}
\* (reward_tier, amount_usd): each tier just below and exactly at its minimum,
\* and a tier that does not exist
TierAmounts ==
    {<<t, REWARD_TIERS[t] - d>> : t \in DOMAIN REWARD_TIERS, d \in {0, 1}}
        \cup {<<"platinum", 500>>}
\* the identifiers _generate_id can return
Ids == {0, 1}
\* the identifiers a caller may pass: the last one is never stored
CallIds == Ids \cup {7}

VARIABLES
    campaigns,  \* table campaigns: id -> row
    pledges,    \* table pledges: id -> row
    now,        \* the clock read by datetime.now() and time.time()
    last,       \* the latest engine call: when it ran and its outcome
    refunded_once,  \* history: the campaigns refund_campaign has returned for
    pc,         \* where the pledge call in progress stands ("idle": none)
    loc,        \* the local variables of the pledge call in progress
    tx          \* the open transaction: the tables as its connection sees them

\* the call in progress and its transaction
flight == <<pc, loc, tx>>

vars == <<campaigns, pledges, now, last, refunded_once, pc, loc, tx>>

\* ---------------------------------------------------------------- helpers
\* _generate_id: the truncated md5 of the time.time() reading, which is not fixed
\* by the tick the call runs in: the identifiers a call may draw. Nothing keeps
\* it away from an identifier already stored; of those not stored one stands for
\* all (identifiers are compared for equality only), the lowest.
generate_id(stored) ==
    stored \cup {i \in Ids \ stored : \A j \in Ids \ stored : i <= j}

\* rows of table pledges WHERE campaign_id = cid
PledgesOf(ps, cid) == {p \in DOMAIN ps : ps[p].campaign_id = cid}

\* a bug to detect: the WHERE clause leaves out refunded = 0
NonRefunded_All(ps, cid) == PledgesOf(ps, cid)

\* rows of table pledges WHERE campaign_id = cid AND refunded = 0
NonRefunded(ps, cid) == {p \in PledgesOf(ps, cid) : ~ps[p].refunded}

\* reward_tier not in self.REWARD_TIERS
InvalidTier(reward_tier) == reward_tier \notin DOMAIN REWARD_TIERS

\* amount_usd < min_amount
BelowMinimum(amount_usd, reward_tier) == amount_usd < REWARD_TIERS[reward_tier]

\* a bug to detect: pledge does not look at the status
NotActive_Never(row) == FALSE

\* a bug to detect: pledge turns away failed campaigns only
NotActive_OnlyFailed(row) == row.status = "failed"

\* campaign_row["status"] != CampaignStatus.ACTIVE.value
NotActive(row) == row.status # "active"

\* a bug to detect: refund_campaign does not look at the status
NotFailed_Never(row) == FALSE

\* a bug to detect: refund_campaign turns away active campaigns only
NotFailed_OnlyActive(row) == row.status = "active"

\* campaign_row["status"] != CampaignStatus.FAILED.value
NotFailed(row) == row.status # "failed"

\* INSERT INTO campaigns: the new row, raised_usd and backers by DEFAULT 0
NewCampaign(category, goal_usd, deadline) ==
    [category |-> category, goal_usd |-> goal_usd, raised_usd |-> 0,
     backers |-> 0, deadline |-> deadline, status |-> "active"]

\* a bug to detect: the new row is stored as refunded
NewPledge_Refunded(campaign_id, backer, amount_usd, reward_tier, ts) ==
    [campaign_id |-> campaign_id, backer |-> backer, amount_usd |-> amount_usd,
     reward_tier |-> reward_tier, ts |-> ts, refunded |-> TRUE]

\* INSERT INTO pledges: the new row, refunded by DEFAULT 0
NewPledge(campaign_id, backer, amount_usd, reward_tier, ts) ==
    [campaign_id |-> campaign_id, backer |-> backer, amount_usd |-> amount_usd,
     reward_tier |-> reward_tier, ts |-> ts, refunded |-> FALSE]

\* a bug to detect: the UPDATE adds the amount and forgets backers = backers + 1
IncrementTotals_NoBackers(row, amount_usd) ==
    [row EXCEPT !.raised_usd = @ + amount_usd]

\* UPDATE campaigns SET raised_usd = raised_usd + ?, backers = backers + 1
IncrementTotals(row, amount_usd) ==
    [row EXCEPT !.raised_usd = @ + amount_usd, !.backers = @ + 1]

\* a bug to detect: the reset also moves the campaign to cancelled
ResetTotals_Cancels(row) ==
    [row EXCEPT !.raised_usd = 0, !.backers = 0, !.status = "cancelled"]

\* UPDATE campaigns SET raised_usd = 0, backers = 0
ResetTotals(row) == [row EXCEPT !.raised_usd = 0, !.backers = 0]

\* a bug to detect: the UPDATE flips the flag of every pledge of the campaign
MarkRefunded_Toggles(ps, cid) ==
    [p \in DOMAIN ps |->
        IF p \in PledgesOf(ps, cid) THEN [ps[p] EXCEPT !.refunded = ~@]
        ELSE ps[p]]

\* UPDATE pledges SET refunded = 1 WHERE campaign_id = ? AND refunded = 0
MarkRefunded(ps, cid) ==
    [p \in DOMAIN ps |->
        IF p \in NonRefunded(ps, cid) THEN [ps[p] EXCEPT !.refunded = TRUE]
        ELSE ps[p]]

\* a bug to detect: a campaign is fetched only a tick after its deadline passed
Expired_Late(cs, t) ==
    {c \in DOMAIN cs : cs[c].status = "active" /\ cs[c].deadline + 1 < t}

\* a bug to detect: the SELECT leaves out status = 'active'
Expired_AnyStatus(cs, t) == {c \in DOMAIN cs : cs[c].deadline < t}

\* SELECT ... FROM campaigns WHERE status = 'active' AND deadline < now
Expired(cs, t) == {c \in DOMAIN cs : cs[c].status = "active" /\ cs[c].deadline < t}

\* a bug to detect: a campaign exactly at its goal is failed
NewStatus_Strict(row) == IF row.raised_usd > row.goal_usd THEN "success" ELSE "failed"

\* the branch of check_deadlines on raised_usd >= goal_usd
NewStatus(row) == IF row.raised_usd >= row.goal_usd THEN "success" ELSE "failed"

\* the outcome of a call: the clock reading it ran at, what it raised ("ok" when it
\* returned) and what it returned; n alternates from call to call, so that a call
\* repeating the outcome of the call before it is still a step
Outcome(op, result, ret) ==
    [op |-> op, n |-> 1 - last.n, at |-> now, result |-> result, ret |-> ret]

\* a call that raises: nothing is written
Raise(op, result) ==
    /\ last' = Outcome(op, result, <<>>)
    /\ UNCHANGED <<campaigns, pledges, now, refunded_once, flight>>

\* no local variables, no transaction
NoLocals == <<>>
NoTx == [open |-> FALSE, campaigns |-> <<>>, pledges |-> <<>>]

\* ------------------------------------------------------------------ Init
Init ==
    /\ campaigns = <<>>
    /\ pledges = <<>>
    /\ now = 0
    /\ last = [op |-> "none", n |-> 0, at |-> 0, result |-> "ok", ret |-> <<>>]
    /\ refunded_once = {}
    /\ pc = "idle"
    /\ loc = NoLocals
    /\ tx = NoTx

\* --------------------------------------------------------------- actions
\* time passes between calls
Tick ==
    /\ now < MaxTime
    /\ now' = now + 1
    /\ UNCHANGED <<campaigns, pledges, last, refunded_once, flight>>

create_campaign(category, goal_usd, deadline_days) ==
    LET deadline == now + deadline_days
    IN  IF category \notin VALID_CATEGORIES
            THEN Raise("create_campaign", "InvalidCategory")
        ELSE IF goal_usd <= 0
            THEN Raise("create_campaign", "InvalidGoal")
        ELSE \E campaign_id \in generate_id(DOMAIN campaigns) :
            IF campaign_id \in DOMAIN campaigns
                THEN Raise("create_campaign", "IntegrityError")
            ELSE
                /\ campaigns' = (campaign_id :> NewCampaign(category, goal_usd, deadline))
                                    @@ campaigns
                /\ last' = Outcome("create_campaign", "ok", <<campaign_id>>)
                /\ UNCHANGED <<pledges, now, refunded_once, flight>>

pledge(campaign_id, backer, amount_usd, reward_tier) ==
    IF InvalidTier(reward_tier)
            THEN Raise("pledge", "InvalidTier")
        ELSE IF BelowMinimum(amount_usd, reward_tier)
            THEN Raise("pledge", "BelowMinimum")
        ELSE IF campaign_id \notin DOMAIN campaigns
            THEN Raise("pledge", "NotFound")
        ELSE IF NotActive(campaigns[campaign_id])
            THEN Raise("pledge", "CampaignNotActive")
        ELSE \E pledge_id \in generate_id(DOMAIN pledges) :
            IF pledge_id \in DOMAIN pledges
                THEN Raise("pledge", "IntegrityError")
            ELSE
                /\ pledges' = (pledge_id :> NewPledge(campaign_id, backer, amount_usd,
                                                      reward_tier, now)) @@ pledges
                /\ campaigns' = [campaigns EXCEPT
                        ![campaign_id] = IncrementTotals(@, amount_usd)]
                /\ last' = Outcome("pledge", "ok", <<pledge_id>>)
                /\ UNCHANGED <<now, refunded_once, flight>>

check_deadlines ==
    LET expired == Expired(campaigns, now)
        success_count == Cardinality({c \in expired : NewStatus(campaigns[c]) = "success"})
        failed_count == Cardinality({c \in expired : NewStatus(campaigns[c]) = "failed"})
    IN  /\ campaigns' = [c \in DOMAIN campaigns |->
                IF c \in expired
                    THEN [campaigns[c] EXCEPT !.status = NewStatus(campaigns[c])]
                    ELSE campaigns[c]]
        /\ last' = Outcome("check_deadlines", "ok", <<success_count, failed_count>>)
        /\ UNCHANGED <<pledges, now, refunded_once, flight>>

\* a bug to detect: the UPDATE of pledges runs before the status is looked at
refund_campaign_WritesFirst(campaign_id) ==
    IF campaign_id \notin DOMAIN campaigns
        THEN Raise("refund_campaign", "NotFound")
    ELSE
        /\ pledges' = MarkRefunded(pledges, campaign_id)
        /\ last' = Outcome("refund_campaign",
                           IF NotFailed(campaigns[campaign_id]) THEN "NotFailed" ELSE "ok",
                           <<>>)
        /\ refunded_once' = refunded_once \cup {campaign_id}
        /\ UNCHANGED <<campaigns, now, flight>>

refund_campaign(campaign_id) ==
    LET refund_count == Cardinality(NonRefunded(pledges, campaign_id))
    IN  IF campaign_id \notin DOMAIN campaigns
            THEN Raise("refund_campaign", "NotFound")
        ELSE IF NotFailed(campaigns[campaign_id])
            THEN Raise("refund_campaign", "NotFailed")
        ELSE
            /\ pledges' = MarkRefunded(pledges, campaign_id)
            /\ campaigns' = IF refund_count > 0
                    THEN [campaigns EXCEPT ![campaign_id] = ResetTotals(@)]
                    ELSE campaigns
            /\ last' = Outcome("refund_campaign", "ok", <<refund_count>>)
            /\ refunded_once' = refunded_once \cup {campaign_id}
            /\ UNCHANGED <<now, flight>>

CreateCampaign ==
    \E category \in Categories, goal_usd \in Goals, deadline_days \in DeadlineDays :
        create_campaign(category, goal_usd, deadline_days)

Pledge ==
    \E campaign_id \in CallIds, backer \in Backers, ta \in TierAmounts :
        pledge(campaign_id, backer, ta[2], ta[1])

CheckDeadlines == check_deadlines

RefundCampaign == \E campaign_id \in CallIds : refund_campaign(campaign_id)

Next ==
    \/ Tick
    \/ CreateCampaign
    \/ Pledge
    \/ CheckDeadlines
    \/ RefundCampaign

Spec == Init /\ [][Next]_vars

\* ------------------------------------------- pledge, statement by statement
\* The writes of pledge belong to one transaction: sqlite3 opens it before the
\* INSERT and conn.commit() ends it. Until the commit the tables on disk are
\* as they were; a process that dies before it leaves them so.

\* pledge up to the INSERT: the checks, the SELECT, the Pledge object
pledge_begin(campaign_id, backer, amount_usd, reward_tier) ==
    /\ pc = "idle"
    /\ IF InvalidTier(reward_tier)
            THEN Raise("pledge", "InvalidTier")
        ELSE IF BelowMinimum(amount_usd, reward_tier)
            THEN Raise("pledge", "BelowMinimum")
        ELSE IF campaign_id \notin DOMAIN campaigns
            THEN Raise("pledge", "NotFound")
        ELSE IF NotActive(campaigns[campaign_id])
            THEN Raise("pledge", "CampaignNotActive")
        ELSE \E pledge_id \in generate_id(DOMAIN pledges) :
            /\ pc' = "insert"
            /\ loc' = [pledge_id |-> pledge_id,
                       pledge |-> NewPledge(campaign_id, backer, amount_usd,
                                            reward_tier, now)]
            /\ last' = Outcome("pledge", "running", <<>>)
            /\ UNCHANGED <<campaigns, pledges, now, refunded_once, tx>>

\* a bug to detect: the connection commits each statement as it runs
pledge_insert_Autocommit ==
    /\ pc = "insert"
    /\ IF loc.pledge_id \in DOMAIN pledges
        THEN /\ last' = [last EXCEPT !.result = "IntegrityError"]
             /\ pc' = "idle"
             /\ loc' = NoLocals
             /\ UNCHANGED <<campaigns, pledges, now, refunded_once, tx>>
        ELSE /\ pledges' = (loc.pledge_id :> loc.pledge) @@ pledges
             /\ tx' = [open |-> TRUE, campaigns |-> campaigns, pledges |-> pledges']
             /\ pc' = "update"
             /\ UNCHANGED <<campaigns, now, last, refunded_once, loc>>

\* INSERT INTO pledges, inside a transaction sqlite3 opens for it
pledge_insert ==
    /\ pc = "insert"
    /\ IF loc.pledge_id \in DOMAIN pledges
        THEN /\ last' = [last EXCEPT !.result = "IntegrityError"]
             /\ pc' = "idle"
             /\ loc' = NoLocals
             /\ UNCHANGED <<campaigns, pledges, now, refunded_once, tx>>
        ELSE /\ tx' = [open |-> TRUE, campaigns |-> campaigns,
                       pledges |-> (loc.pledge_id :> loc.pledge) @@ pledges]
             /\ pc' = "update"
             /\ UNCHANGED <<campaigns, pledges, now, last, refunded_once, loc>>

\* UPDATE campaigns SET raised_usd = raised_usd + ?, backers = backers + 1
pledge_update ==
    /\ pc = "update"
    /\ tx' = [tx EXCEPT !.campaigns[loc.pledge.campaign_id] =
                            IncrementTotals(@, loc.pledge.amount_usd)]
    /\ pc' = "commit"
    /\ UNCHANGED <<campaigns, pledges, now, last, refunded_once, loc>>

\* conn.commit(): the transaction's tables become the tables on disk
pledge_commit ==
    /\ pc = "commit"
    /\ campaigns' = tx.campaigns
    /\ pledges' = tx.pledges
    /\ last' = [last EXCEPT !.result = "ok", !.ret = <<loc.pledge_id>>]
    /\ pc' = "idle"
    /\ loc' = NoLocals
    /\ tx' = NoTx
    /\ UNCHANGED <<now, refunded_once>>

\* the process dies inside pledge: its transaction is never committed, and
\* SQLite rolls it back
Crash ==
    /\ pc # "idle"
    /\ last' = [last EXCEPT !.result = "crash", !.ret = <<pc>>]
    /\ pc' = "idle"
    /\ loc' = NoLocals
    /\ tx' = NoTx
    /\ UNCHANGED <<campaigns, pledges, now, refunded_once>>

PledgeBegin ==
    \E campaign_id \in CallIds, backer \in Backers, ta \in TierAmounts :
        pledge_begin(campaign_id, backer, ta[2], ta[1])

\* the other calls run to completion, one call at a time
Serial(call) == pc = "idle" /\ call

NextCrash ==
    \/ Tick
    \/ Serial(CreateCampaign)
    \/ Serial(CheckDeadlines)
    \/ Serial(RefundCampaign)
    \/ PledgeBegin
    \/ pledge_insert
    \/ pledge_update
    \/ pledge_commit
    \/ Crash

SpecCrash == Init /\ [][NextCrash]_vars

\* ---------------------------------- check_deadlines, statement by statement
\* The UPDATEs of one sweep belong to one transaction: sqlite3 opens it before
\* the first UPDATE, and the only conn.commit() comes after the loop.

\* the tables as the connection of the call in progress sees them
Seen == IF tx.open THEN tx ELSE [open |-> FALSE, campaigns |-> campaigns,
                                 pledges |-> pledges]

\* check_deadlines up to the loop: now, the SELECT, expired = cur.fetchall()
sweep_begin ==
    /\ pc = "idle"
    /\ pc' = "sweep"
    /\ loc' = [expired |-> [c \in Expired(campaigns, now) |->
                                [goal_usd |-> campaigns[c].goal_usd,
                                 raised_usd |-> campaigns[c].raised_usd]],
               todo |-> Expired(campaigns, now),
               success_count |-> 0, failed_count |-> 0]
    /\ last' = Outcome("check_deadlines", "running", <<>>)
    /\ UNCHANGED <<campaigns, pledges, now, refunded_once, tx>>

\* one turn of the loop: the branch on the fetched row, then UPDATE campaigns
\* SET status = ? WHERE id = ?, inside the transaction
sweep_update ==
    /\ pc = "sweep"
    /\ \E campaign_id \in loc.todo :
        LET new_status == NewStatus(loc.expired[campaign_id])
        IN  /\ tx' = [open |-> TRUE,
                      campaigns |-> [Seen.campaigns EXCEPT
                                        ![campaign_id].status = new_status],
                      pledges |-> Seen.pledges]
            /\ loc' = [loc EXCEPT
                    !.todo = @ \ {campaign_id},
                    !.success_count = IF new_status = "success" THEN @ + 1 ELSE @,
                    !.failed_count = IF new_status = "failed" THEN @ + 1 ELSE @]
    /\ UNCHANGED <<campaigns, pledges, now, last, refunded_once, pc>>

\* after the loop: conn.commit() and the return
sweep_commit ==
    /\ pc = "sweep"
    /\ loc.todo = {}
    /\ campaigns' = Seen.campaigns
    /\ last' = [last EXCEPT !.result = "ok",
                            !.ret = <<loc.success_count, loc.failed_count>>]
    /\ pc' = "idle"
    /\ loc' = NoLocals
    /\ tx' = NoTx
    /\ UNCHANGED <<pledges, now, refunded_once>>

NextSweepCrash ==
    \/ Tick
    \/ Serial(CreateCampaign)
    \/ Serial(Pledge)
    \/ Serial(RefundCampaign)
    \/ sweep_begin
    \/ sweep_update
    \/ sweep_commit
    \/ Crash

SpecSweepCrash == Init /\ [][NextSweepCrash]_vars


\* ------------------------------------------- the end-to-end failure scenario
\* The calls of the scenario: a campaign with goal 1000 and its deadline one
\* day ahead, pledges of 50 (supporter) and 600 (champion), the clock moved
\* past the deadline, check_deadlines, refund_campaign.
ScenarioGoals == {1000}
ScenarioDeadlineDays == {1}
ScenarioBackers == {"alice", "bob"}
ScenarioTierAmounts == {<<"supporter", 50>>, <<"champion", 600>>}

\* get_campaign: progress_pct = min(100, raised_usd / goal_usd * 100), in whole
\* percent
progress_pct(row) ==
    IF row.goal_usd > 0
    THEN LET pct == (row.raised_usd * 100) \div row.goal_usd
         IN  IF pct < 100 THEN pct ELSE 100
    ELSE 0

\* time passes: far enough to leave a deadline set at the last tick behind
ScenarioTick ==
    /\ now <= MaxTime
    /\ now' = now + 1
    /\ UNCHANGED <<campaigns, pledges, last, refunded_once, flight>>

ScenarioCreate ==
    \E goal_usd \in ScenarioGoals, deadline_days \in ScenarioDeadlineDays :
        create_campaign("tech", goal_usd, deadline_days)

ScenarioPledge ==
    \E campaign_id \in Ids, backer \in ScenarioBackers, ta \in ScenarioTierAmounts :
        pledge(campaign_id, backer, ta[2], ta[1])

NextScenario ==
    \/ ScenarioTick
    \/ ScenarioCreate
    \/ ScenarioPledge
    \/ CheckDeadlines
    \/ RefundCampaign

SpecScenario == Init /\ [][NextScenario]_vars

\* ------------------------------------------------------ concurrent callers
\* Every call opens a connection of its own (_get_conn). SQLite lets one
\* connection write at a time and shows the others nothing before the commit, so
\* the statements of one transaction take effect together; the SELECT a call
\* makes before its first write is a step of its own, and other callers' steps
\* may come between the two. Here pc and loc hold one entry per caller.
Callers == {"a", "b"}

\* the pledges a concurrent caller tries: below a minimum, at a minimum that
\* leaves the goal unmet, at a minimum that meets it
ConcTierAmounts == {<<"supporter", 4>>, <<"supporter", 5>>, <<"champion", 100>>}

InitConc ==
    /\ campaigns = <<>>
    /\ pledges = <<>>
    /\ now = 0
    /\ last = [op |-> "none", n |-> 0, at |-> 0, result |-> "ok", ret |-> <<>>]
    /\ refunded_once = {}
    /\ pc = [k \in Callers |-> "idle"]
    /\ loc = [k \in Callers |-> NoLocals]
    /\ tx = NoTx

\* caller k goes on to its transaction with the locals l
Proceed(k, to, l) ==
    /\ pc' = [pc EXCEPT ![k] = to]
    /\ loc' = [loc EXCEPT ![k] = l]
    /\ UNCHANGED <<campaigns, pledges, now, last, refunded_once, tx>>

\* the call of caller k is over
Return(k) ==
    /\ pc' = [pc EXCEPT ![k] = "idle"]
    /\ loc' = [loc EXCEPT ![k] = NoLocals]
    /\ UNCHANGED <<now, last, refunded_once, tx>>

\* create_campaign has one statement that touches the tables, the INSERT
create_transaction(category, goal_usd, deadline_days) ==
    /\ category \in VALID_CATEGORIES
    /\ goal_usd > 0
    /\ \E campaign_id \in generate_id(DOMAIN campaigns) :
        /\ campaign_id \notin DOMAIN campaigns
        /\ campaigns' = (campaign_id :> NewCampaign(category, goal_usd,
                                                    now + deadline_days)) @@ campaigns
    /\ UNCHANGED <<pledges, now, last, refunded_once, flight>>

\* pledge up to the INSERT: the checks and the SELECT of the campaign row; a
\* call that raises leaves no trace
pledge_select(k, campaign_id, backer, amount_usd, reward_tier) ==
    /\ pc[k] = "idle"
    /\ IF \/ InvalidTier(reward_tier)
          \/ BelowMinimum(amount_usd, reward_tier)
          \/ campaign_id \notin DOMAIN campaigns
        THEN UNCHANGED vars
       ELSE IF NotActive(campaigns[campaign_id])
        THEN UNCHANGED vars
       ELSE Proceed(k, "pledge",
                    [pledge |-> NewPledge(campaign_id, backer, amount_usd,
                                          reward_tier, now)])

\* a bug to detect: the UPDATE runs only while the campaign is still active
pledge_transaction_Guarded(k) ==
    /\ pc[k] = "pledge"
    /\ \E pledge_id \in generate_id(DOMAIN pledges) :
        IF pledge_id \in DOMAIN pledges
            THEN UNCHANGED <<campaigns, pledges>>
        ELSE
            /\ pledges' = (pledge_id :> loc[k].pledge) @@ pledges
            /\ campaigns' = IF NotActive(campaigns[loc[k].pledge.campaign_id])
                    THEN campaigns
                    ELSE [campaigns EXCEPT ![loc[k].pledge.campaign_id] =
                                IncrementTotals(@, loc[k].pledge.amount_usd)]
    /\ Return(k)

\* the INSERT, the UPDATE and the commit of pledge
pledge_transaction(k) ==
    /\ pc[k] = "pledge"
    /\ \E pledge_id \in generate_id(DOMAIN pledges) :
        IF pledge_id \in DOMAIN pledges
            THEN UNCHANGED <<campaigns, pledges>>
        ELSE
            /\ pledges' = (pledge_id :> loc[k].pledge) @@ pledges
            /\ campaigns' = [campaigns EXCEPT ![loc[k].pledge.campaign_id] =
                                IncrementTotals(@, loc[k].pledge.amount_usd)]
    /\ Return(k)

\* check_deadlines up to the loop: the rows the SELECT fetched
sweep_select(k) ==
    /\ pc[k] = "idle"
    /\ Proceed(k, "sweep",
               [expired |-> [c \in Expired(campaigns, now) |->
                                [goal_usd |-> campaigns[c].goal_usd,
                                 raised_usd |-> campaigns[c].raised_usd]]])

\* the loop of UPDATEs and the commit of check_deadlines: the status of each
\* fetched row is set from the totals fetched with it
sweep_transaction(k) ==
    /\ pc[k] = "sweep"
    /\ campaigns' = [c \in DOMAIN campaigns |->
            IF c \in DOMAIN loc[k].expired
                THEN [campaigns[c] EXCEPT !.status = NewStatus(loc[k].expired[c])]
                ELSE campaigns[c]]
    /\ pledges' = pledges
    /\ Return(k)

\* refund_campaign up to the first UPDATE: the SELECT and the checks
refund_select(k, campaign_id) ==
    /\ pc[k] = "idle"
    /\ IF campaign_id \notin DOMAIN campaigns
        THEN UNCHANGED vars
       ELSE IF NotFailed(campaigns[campaign_id])
        THEN UNCHANGED vars
       ELSE Proceed(k, "refund", [campaign_id |-> campaign_id])

\* the two UPDATEs and the commit of refund_campaign
refund_transaction(k) ==
    /\ pc[k] = "refund"
    /\ pledges' = MarkRefunded(pledges, loc[k].campaign_id)
    /\ campaigns' = IF NonRefunded(pledges, loc[k].campaign_id) # {}
            THEN [campaigns EXCEPT ![loc[k].campaign_id] = ResetTotals(@)]
            ELSE campaigns
    /\ Return(k)

ConcCreate ==
    \E category \in Categories, goal_usd \in Goals, deadline_days \in DeadlineDays :
        create_transaction(category, goal_usd, deadline_days)

ConcPledge ==
    \E k \in Callers :
        \/ \E campaign_id \in CallIds, backer \in Backers, ta \in ConcTierAmounts :
                pledge_select(k, campaign_id, backer, ta[2], ta[1])
        \/ pledge_transaction(k)

ConcSweep == \E k \in Callers : sweep_select(k) \/ sweep_transaction(k)

ConcRefund ==
    \E k \in Callers :
        \/ \E campaign_id \in CallIds : refund_select(k, campaign_id)
        \/ refund_transaction(k)

NextConc ==
    \/ Tick
    \/ ConcCreate
    \/ ConcPledge
    \/ ConcSweep
    \/ ConcRefund

SpecConc == InitConc /\ [][NextConc]_vars

\* ------------------------------------------------- the scheduled sweep
\* check_deadlines is meant to be called on a schedule while time passes: the
\* clock keeps advancing and the sweep keeps being called. The clock of the
\* model stops at MaxTime, so only campaigns whose deadline lies before MaxTime
\* are created.
LiveCreate ==
    \E category \in Categories, goal_usd \in Goals, deadline_days \in DeadlineDays :
        /\ now + deadline_days < MaxTime
        /\ create_campaign(category, goal_usd, deadline_days)

NextLive ==
    \/ Tick
    \/ LiveCreate
    \/ Pledge
    \/ CheckDeadlines
    \/ RefundCampaign

SpecLive ==
    /\ Init
    /\ [][NextLive]_vars
    /\ WF_vars(Tick)
    /\ WF_vars(CheckDeadlines)

\* ================================================================ claims
Terminal == CampaignStatus \ {"active"}

\* the pledges of campaign c that are not refunded, as the claims mean them
Live(ps, c) == {p \in DOMAIN ps : ps[p].campaign_id = c /\ ps[p].refunded = FALSE}

RECURSIVE Total(_, _)
Total(ps, S) ==
    IF S = {} THEN 0
    ELSE LET p == CHOOSE x \in S : TRUE
         IN  ps[p].amount_usd + Total(ps, S \ {p})

\* raised_usd and backers of every campaign agree with its non-refunded pledges
AggregatesConsistent(cs, ps) ==
    \A c \in DOMAIN cs :
        /\ cs[c].raised_usd = Total(ps, Live(ps, c))
        /\ cs[c].backers = Cardinality(Live(ps, c))

\* C1: in every reachable state of the ledger, for every campaign, raised_usd is
\* the sum of amount_usd over its non-refunded pledges and backers is their number.
C1_AggregateInvariant == AggregatesConsistent(campaigns, pledges)

\* a campaign holding a live pledge beside a campaign whose pledge was refunded
C1_Witness ==
    \E c1, c2 \in DOMAIN campaigns :
        /\ Live(pledges, c1) # {}
        /\ \E p \in DOMAIN pledges : pledges[p].campaign_id = c2 /\ pledges[p].refunded

\* C2: a pledge call with a valid tier and an amount at or above the tier minimum,
\* on an existing campaign whose status is success, failed or cancelled, raises
\* CampaignNotActive, whatever the deadline, and writes nothing.
C2_TerminalRejectsPledge ==
    [][\A cid \in DOMAIN campaigns, b \in Backers, ta \in TierAmounts :
        ( /\ campaigns[cid].status \in Terminal
          /\ ~InvalidTier(ta[1])
          /\ ~BelowMinimum(ta[2], ta[1])
          /\ pledge(cid, b, ta[2], ta[1]) )
        => /\ last'.result = "CampaignNotActive"
           /\ pledges' = pledges
           /\ campaigns' = campaigns]_vars

\* a pledge has just been turned away from a campaign that is no longer active
C2_Witness ==
    /\ last.op = "pledge"
    /\ last.result = "CampaignNotActive"
    /\ \E c \in DOMAIN campaigns : campaigns[c].status = "success"
    /\ \E c \in DOMAIN campaigns : campaigns[c].status = "failed"


\* C3, as stated: no pledge call made later than the campaign's deadline is ever
\* accepted, whatever the order of pledge and check_deadlines calls.
C3_DeadlineCutsOff ==
    \A p \in DOMAIN pledges :
        pledges[p].ts <= campaigns[pledges[p].campaign_id].deadline

\* C3, amended: the status is the cut-off, not the deadline. No pledge is added to
\* a campaign whose status is no longer active, that is, once a check_deadlines
\* run made later than the deadline has resolved it; until that run a pledge
\* made later than the deadline is accepted.
C3_StatusCutsOff ==
    [][\A c \in DOMAIN campaigns :
        campaigns[c].status # "active"
        => {p \in DOMAIN pledges' : pledges'[p].campaign_id = c}
            = {p \in DOMAIN pledges : pledges[p].campaign_id = c}]_vars

\* a campaign took a pledge later than its deadline, was then resolved, and has
\* just turned a pledge away
C3_Witness ==
    /\ last.op = "pledge"
    /\ last.result = "CampaignNotActive"
    /\ \E p \in DOMAIN pledges :
        LET c == pledges[p].campaign_id
        IN  /\ pledges[p].ts > campaigns[c].deadline
            /\ campaigns[c].status # "active"

\* C4: once a campaign's status is success, failed or cancelled, no engine call
\* changes it; refund_campaign leaves it failed.
C4_TerminalAbsorbing ==
    [][\A c \in DOMAIN campaigns :
        campaigns[c].status \in Terminal
        => /\ c \in DOMAIN campaigns'
           /\ campaigns'[c].status = campaigns[c].status]_vars

\* refund_campaign has just refunded the pledges of a failed campaign
C4_Witness ==
    /\ last.op = "refund_campaign"
    /\ last.result = "ok"
    /\ last.ret # <<0>>
    /\ \E c \in refunded_once : campaigns[c].status = "failed"

\* C5: on a failed campaign refund_campaign returns the number of non-refunded
\* pledges and leaves raised_usd = 0, backers = 0 and no pledge non-refunded; a
\* later call on the same campaign returns 0 and leaves the ledger as it was.
C5_RefundIdempotent ==
    [][\A c \in DOMAIN campaigns :
        (campaigns[c].status = "failed" /\ refund_campaign(c))
        => /\ last'.result = "ok"
           /\ last'.ret = <<Cardinality(Live(pledges, c))>>
           /\ campaigns'[c].raised_usd = 0
           /\ campaigns'[c].backers = 0
           /\ Live(pledges', c) = {}
           /\ c \in refunded_once
                => /\ last'.ret = <<0>>
                   /\ pledges' = pledges
                   /\ campaigns' = campaigns]_vars

\* a second refund_campaign call on a campaign whose pledges the first refunded
C5_Witness ==
    /\ last.op = "refund_campaign"
    /\ last.result = "ok"
    /\ last.ret = <<0>>
    /\ \E c \in refunded_once :
        \E p \in DOMAIN pledges : pledges[p].campaign_id = c /\ pledges[p].refunded

\* C6: refund_campaign on an existing campaign whose status is active or success
\* raises NotFailed and changes no refunded flag, raised_usd or backers.
C6_RefundNeedsFailed ==
    [][\A c \in DOMAIN campaigns :
        (campaigns[c].status \in {"active", "success"} /\ refund_campaign(c))
        => /\ last'.result = "NotFailed"
           /\ pledges' = pledges
           /\ campaigns' = campaigns]_vars

\* refund_campaign has just been refused on a funded campaign with a live pledge
C6_Witness ==
    /\ last.op = "refund_campaign"
    /\ last.result = "NotFailed"
    /\ \E c \in DOMAIN campaigns :
        campaigns[c].status = "success" /\ Live(pledges, c) # {}

\* the status column of table campaigns
Statuses(cs) == [c \in DOMAIN cs |-> cs[c].status]

\* C7, as stated: when check_deadlines runs twice with no other engine call in
\* between, the second run returns (0, 0) and changes no status.
C7_SecondSweepEmpty ==
    [][(last.op = "check_deadlines" /\ check_deadlines)
        => /\ last'.ret = <<0, 0>>
           /\ Statuses(campaigns') = Statuses(campaigns)]_vars

\* C7, amended: when check_deadlines runs twice with no other engine call in
\* between, the second run returns (0, 0) and changes no status, unless between
\* the two runs the clock has passed the deadline of a campaign still active.
C7_SecondSweepNoNewExpiry ==
    [][( /\ last.op = "check_deadlines"
         /\ check_deadlines
         /\ ~\E c \in DOMAIN campaigns :
                /\ campaigns[c].status = "active"
                /\ last.at <= campaigns[c].deadline
                /\ campaigns[c].deadline < now )
        => /\ last'.ret = <<0, 0>>
           /\ Statuses(campaigns') = Statuses(campaigns)]_vars

\* a sweep that found nothing, run at the clock value at which an earlier sweep
\* had resolved a campaign
C7_Witness ==
    /\ last.op = "check_deadlines"
    /\ last.at = now
    /\ last.ret = <<0, 0>>
    /\ \E c \in DOMAIN campaigns :
        campaigns[c].status \in {"success", "failed"} /\ campaigns[c].deadline < now

\* C8: check_deadlines moves every active campaign whose deadline is before now
\* to success when raised_usd >= goal_usd and to failed otherwise, leaves no
\* campaign active with its deadline before now, leaves every other campaign's
\* status alone, and returns the numbers it moved to success and to failed.
C8_SweepResolves ==
    [][check_deadlines
        => /\ DOMAIN campaigns' = DOMAIN campaigns
           /\ \A c \in DOMAIN campaigns :
                IF campaigns[c].status = "active" /\ campaigns[c].deadline < now
                THEN campaigns'[c].status =
                        IF campaigns[c].raised_usd >= campaigns[c].goal_usd
                        THEN "success" ELSE "failed"
                ELSE campaigns'[c].status = campaigns[c].status
           /\ \A c \in DOMAIN campaigns' :
                ~(campaigns'[c].status = "active" /\ campaigns'[c].deadline < now)
           /\ last'.ret =
                << Cardinality({c \in DOMAIN campaigns :
                        campaigns[c].status = "active" /\ campaigns'[c].status = "success"}),
                   Cardinality({c \in DOMAIN campaigns :
                        campaigns[c].status = "active" /\ campaigns'[c].status = "failed"}) >>]_vars

\* one sweep has just moved one campaign to success, exactly at its goal, and
\* one to failed
C8_Witness ==
    /\ last.op = "check_deadlines"
    /\ last.ret = <<1, 1>>
    /\ \E c \in DOMAIN campaigns :
        campaigns[c].status = "success" /\ campaigns[c].raised_usd = campaigns[c].goal_usd

\* C9, as stated: for every reward tier, a pledge below the tier's minimum raises
\* BelowMinimum whether or not the campaign exists and whatever its status, and
\* a pledge exactly at the minimum on an active campaign succeeds.
C9_TierMinimum ==
    [][\A cid \in CallIds, b \in Backers, ta \in TierAmounts :
        (~InvalidTier(ta[1]) /\ pledge(cid, b, ta[2], ta[1]))
        => /\ ta[2] < REWARD_TIERS[ta[1]] => last'.result = "BelowMinimum"
           /\ ( /\ ta[2] = REWARD_TIERS[ta[1]]
                /\ cid \in DOMAIN campaigns
                /\ campaigns[cid].status = "active" )
              => last'.result = "ok"]_vars

\* C10: when the process dies inside pledge, between the INSERT and the UPDATE
\* or after both and before the commit, the tables on disk hold both writes or
\* neither: raised_usd and backers agree with the pledges while the call is in
\* progress and after the crash.
C10_CrashAtomic ==
    (pc # "idle" \/ last.result = "crash")
        => AggregatesConsistent(campaigns, pledges)

\* the process died between the INSERT and the UPDATE of a pledge to a campaign
\* that already had one
C10_Witness ==
    /\ last.result = "crash"
    /\ last.ret = <<"update">>
    /\ \E c \in DOMAIN campaigns : Live(pledges, c) # {}

\* C11, as stated: when the process dies in the middle of a check_deadlines sweep
\* over several expired active campaigns, the tables on disk hold the resolved
\* status of every campaign the sweep had resolved before the crash, and the
\* campaigns it had not reached are still active.
C11_SweepCrashKeepsResolved ==
    [][( /\ Crash
         /\ pc = "sweep"
         /\ tx.open
         /\ loc.todo # {} )
        => \A c \in DOMAIN loc.expired :
            IF c \in loc.todo
            THEN campaigns'[c].status = "active"
            ELSE campaigns'[c].status = tx.campaigns[c].status
                 /\ campaigns'[c].status \in {"success", "failed"}]_vars

\* the failures the engine calls raise on purpose
ValidationFailures ==
    {"InvalidCategory", "InvalidGoal", "InvalidTier", "BelowMinimum", "NotFound",
     "CampaignNotActive", "NotFailed"}

\* C12: an engine call that ends in InvalidCategory, InvalidGoal, InvalidTier,
\* BelowMinimum, NotFound, CampaignNotActive or NotFailed leaves every campaign
\* row and every pledge row as it was before the call.
C12_FailureWritesNothing ==
    [][( /\ last'.n # last.n
         /\ last'.result \in ValidationFailures )
        => /\ campaigns' = campaigns
           /\ pledges' = pledges]_vars

\* a call has just been refused while the ledger held a campaign with a live
\* pledge and a refunded one
C12_Witness ==
    /\ last.result \in {"InvalidCategory", "NotFailed", "BelowMinimum"}
    /\ \E c \in DOMAIN campaigns : Live(pledges, c) # {}
    /\ \E p \in DOMAIN pledges : pledges[p].refunded

\* C13: a pledge row, once stored, stays stored with the same campaign_id,
\* backer, amount_usd, reward_tier and ts, and its refunded flag, once true,
\* stays true.
C13_PledgeImmutable ==
    [][\A p \in DOMAIN pledges :
        /\ p \in DOMAIN pledges'
        /\ pledges'[p].campaign_id = pledges[p].campaign_id
        /\ pledges'[p].backer = pledges[p].backer
        /\ pledges'[p].amount_usd = pledges[p].amount_usd
        /\ pledges'[p].reward_tier = pledges[p].reward_tier
        /\ pledges'[p].ts = pledges[p].ts
        /\ pledges[p].refunded => pledges'[p].refunded]_vars

\* refund_campaign has run again on a campaign whose pledge was refunded
\* before, while another campaign holds a live pledge
C13_Witness ==
    /\ last.op = "refund_campaign"
    /\ last.result = "ok"
    /\ last.ret = <<0>>
    /\ \E p, q \in DOMAIN pledges :
        /\ pledges[p].refunded
        /\ pledges[p].campaign_id \in refunded_once
        /\ ~pledges[q].refunded

\* C14, as stated: every identifier create_campaign or pledge generates differs
\* from the identifiers already stored, so a create_campaign call with a valid
\* category and goal, and a pledge call with a valid tier and amount on an
\* active campaign, never fail on a duplicate identifier.
C14_FreshIdentifiers ==
    [][ /\ \A category \in Categories, goal_usd \in Goals, deadline_days \in DeadlineDays :
            ( /\ category \in VALID_CATEGORIES
              /\ goal_usd > 0
              /\ create_campaign(category, goal_usd, deadline_days) )
            => /\ last'.result = "ok"
               /\ DOMAIN campaigns' # DOMAIN campaigns
        /\ \A cid \in DOMAIN campaigns, b \in Backers, ta \in TierAmounts :
            ( /\ ~InvalidTier(ta[1])
              /\ ~BelowMinimum(ta[2], ta[1])
              /\ campaigns[cid].status = "active"
              /\ pledge(cid, b, ta[2], ta[1]) )
            => /\ last'.result = "ok"
               /\ DOMAIN pledges' # DOMAIN pledges ]_vars

\* the scenario's campaign c is the only campaign, has goal 1000, status st, and
\* holds exactly the non-refunded pledges of the amounts in A
ScenarioAt(c, st, A) ==
    /\ DOMAIN campaigns = {c}
    /\ campaigns[c].goal_usd = 1000
    /\ campaigns[c].status = st
    /\ \A p \in DOMAIN pledges : pledges[p].campaign_id = c /\ ~pledges[p].refunded
    /\ {pledges[p].amount_usd : p \in DOMAIN pledges} = A
    /\ Cardinality(DOMAIN pledges) = Cardinality(A)

\* C15, as stated: on a campaign with goal 1000 the pledges of 50 (supporter) and
\* 600 (champion) give raised_usd = 650, backers = 2 and progress_pct = 65; once
\* the clock is past the deadline check_deadlines returns (0, 1) and the status
\* is failed; refund_campaign then returns 2 and leaves raised_usd = 0,
\* backers = 0 and both pledges refunded.
C15_FailureScenario ==
    [][\A c \in DOMAIN campaigns, b \in ScenarioBackers :
        /\ (ScenarioAt(c, "active", {}) /\ pledge(c, b, 50, "supporter"))
            => /\ last'.result = "ok"
               /\ campaigns'[c].raised_usd = 50
        /\ (ScenarioAt(c, "active", {50}) /\ pledge(c, b, 600, "champion"))
            => /\ last'.result = "ok"
               /\ campaigns'[c].raised_usd = 650
               /\ campaigns'[c].backers = 2
               /\ progress_pct(campaigns'[c]) = 65
        /\ ( /\ ScenarioAt(c, "active", {50, 600})
             /\ now > campaigns[c].deadline
             /\ check_deadlines )
            => /\ last'.ret = <<0, 1>>
               /\ campaigns'[c].status = "failed"
        /\ (ScenarioAt(c, "failed", {50, 600}) /\ refund_campaign(c))
            => /\ last'.ret = <<2>>
               /\ campaigns'[c].raised_usd = 0
               /\ campaigns'[c].backers = 0
               /\ \A p \in DOMAIN pledges' : pledges'[p].refunded]_vars

\* C16: a pledge call that returns adds exactly one pledge row, non-refunded and
\* of that campaign, backer, amount and tier, adds the amount to the campaign's
\* raised_usd and 1 to its backers, and leaves alone the campaign's status,
\* goal_usd and deadline, every other campaign row and every pledge row there was.
C16_PledgeFrame ==
    [][\A cid \in CallIds, b \in Backers, ta \in TierAmounts :
        ( /\ last'.op = "pledge"
          /\ last'.result = "ok"
          /\ pledge(cid, b, ta[2], ta[1]) )
        => /\ \E p \in DOMAIN pledges' \ DOMAIN pledges :
                /\ DOMAIN pledges' = DOMAIN pledges \cup {p}
                /\ last'.ret = <<p>>
                /\ pledges'[p].campaign_id = cid
                /\ pledges'[p].backer = b
                /\ pledges'[p].amount_usd = ta[2]
                /\ pledges'[p].reward_tier = ta[1]
                /\ pledges'[p].refunded = FALSE
           /\ \A p \in DOMAIN pledges : pledges'[p] = pledges[p]
           /\ DOMAIN campaigns' = DOMAIN campaigns
           /\ cid \in DOMAIN campaigns
           /\ campaigns'[cid] = [campaigns[cid] EXCEPT
                    !.raised_usd = campaigns[cid].raised_usd + ta[2],
                    !.backers = campaigns[cid].backers + 1]
           /\ \A c \in DOMAIN campaigns \ {cid} : campaigns'[c] = campaigns[c]]_vars

\* a pledge has just been accepted by one of two campaigns, the other holding
\* a pledge of its own
C16_Witness ==
    /\ last.op = "pledge"
    /\ last.result = "ok"
    /\ \E p, q \in DOMAIN pledges :
        /\ last.ret = <<p>>
        /\ pledges[q].campaign_id # pledges[p].campaign_id
        /\ campaigns[pledges[p].campaign_id].raised_usd = pledges[p].amount_usd

\* C17: with one call at a time, every campaign with status success has
\* raised_usd >= goal_usd and no refunded pledge, every campaign with status
\* failed has raised_usd < goal_usd, and every refunded pledge belongs to a
\* campaign with status failed.
C17_StatusAgreesWithTotals ==
    /\ \A c \in DOMAIN campaigns :
        /\ campaigns[c].status = "success"
            => /\ campaigns[c].raised_usd >= campaigns[c].goal_usd
               /\ \A p \in DOMAIN pledges :
                    pledges[p].campaign_id = c => ~pledges[p].refunded
        /\ campaigns[c].status = "failed"
            => campaigns[c].raised_usd < campaigns[c].goal_usd
    /\ \A p \in DOMAIN pledges :
        pledges[p].refunded
            => /\ pledges[p].campaign_id \in DOMAIN campaigns
               /\ campaigns[pledges[p].campaign_id].status = "failed"

\* a funded campaign with its pledge beside a failed campaign whose pledge was
\* refunded
C17_Witness ==
    \E c1, c2 \in DOMAIN campaigns :
        /\ campaigns[c1].status = "success"
        /\ Live(pledges, c1) # {}
        /\ campaigns[c2].status = "failed"
        /\ \E p \in DOMAIN pledges : pledges[p].campaign_id = c2 /\ pledges[p].refunded

\* C18, as stated: with two callers interleaving at the granularity of a SELECT
\* and a transaction, no pledge is committed for a campaign whose status is not
\* active at the moment of the commit, and no campaign is written as failed while
\* its committed raised_usd is at or above its goal_usd.
C18_NoStaleDecision ==
    [][\A k \in Callers :
        /\ (pledge_transaction(k) /\ pledges' # pledges)
            => campaigns[loc[k].pledge.campaign_id].status = "active"
        /\ sweep_transaction(k)
            => \A c \in DOMAIN loc[k].expired :
                campaigns'[c].status = "failed"
                    => campaigns[c].raised_usd < campaigns[c].goal_usd]_vars

\* C19: with concurrent callers interleaving pledge, check_deadlines and
\* refund_campaign at the granularity of a SELECT and a transaction, in every
\* committed state raised_usd is the sum of the campaign's non-refunded pledge
\* amounts and backers is their number: no update of either is lost.
C19_NoLostUpdate ==
    \A c \in DOMAIN campaigns :
        LET live == {p \in DOMAIN pledges :
                        pledges[p].campaign_id = c /\ ~pledges[p].refunded}
        IN  /\ campaigns[c].raised_usd = Total(pledges, live)
            /\ campaigns[c].backers = Cardinality(live)

\* a pledge was committed to a campaign after a sweep had failed it and after
\* refund_campaign had refunded its earlier pledge
C19_Witness ==
    /\ \A k \in Callers : pc[k] = "idle"
    /\ \E c \in DOMAIN campaigns :
        /\ campaigns[c].status = "failed"
        /\ Live(pledges, c) # {}
        /\ \E p \in DOMAIN pledges : pledges[p].campaign_id = c /\ pledges[p].refunded

\* C20: when the clock keeps advancing and check_deadlines keeps being called,
\* every campaign created leaves status active for success or failed, and no
\* campaign ever has status cancelled.
C20_EventuallyResolved ==
    /\ [](\A c \in DOMAIN campaigns : campaigns[c].status # "cancelled")
    /\ \A c \in Ids :
        (c \in DOMAIN campaigns)
            ~> (c \in DOMAIN campaigns /\ campaigns[c].status \in {"success", "failed"})

\* the clock has run out and the sweep has resolved two campaigns, one each way
C20_Witness ==
    /\ now = MaxTime
    /\ \E c1, c2 \in DOMAIN campaigns :
        /\ campaigns[c1].status = "success"
        /\ campaigns[c2].status = "failed"
        /\ campaigns[c1].deadline < now
        /\ campaigns[c2].deadline < now

====
